---- MODULE Spec2Model ----
(***************************************************************************)
(* A model of src/bot.py: the sqlite rating store (elo_get, elo_set), the  *)
(* paired Elo update (elo_update), the today-filter (filter_today), the    *)
(* contextual predictions (mlb_predict, nfl_predict) and the slate         *)
(* rendering of cmd_today and post_today.                                  *)
(*                                                                         *)
(* Real numbers are fixed-point integers.  A rating is kept in hundredths  *)
(* of a point (RScale), an expected score in ten-thousandths (EScale).     *)
(* Every arithmetic step rounds to the nearest representable value, as the *)
(* float arithmetic of the source does.                                    *)
(***************************************************************************)
EXTENDS Integers, Sequences, FiniteSets, TLC

VARIABLES
    elo,        \* table elo: competitor key -> rating (a row per key present)
    results,    \* table results: set of settled <<sport, item_key>> rows
    pc,         \* per caller: the statement it is about to execute
    op,         \* per caller: the call in progress (its arguments)
    Ra,         \* per caller: elo_update's local Ra
    Rb,         \* per caller: elo_update's local Rb
    ret,        \* per caller: value returned by its last elo_get
    hist,       \* per caller: the calls it has completed (history variable)
    LOCAL_TZ,   \* the global LOCAL_TZ, a zone name
    items,      \* the list handed to filter_today
    now,        \* datetime.now(LOCAL_TZ) of the last call: its zone and local date
    out,        \* the list filter_today returned
    fstatus,    \* filter_today: "ready", "returned" or "raised"
    upcoming,   \* per league: the events odds_upcoming returns
    apiKey,     \* ODDS_API_KEY is set
    channelId,  \* CHANNEL_ID is set
    request,    \* the slate request handled last
    sent,       \* the messages sent for it, in order
    game,       \* the game a prediction is made for
    resp,       \* what the weather service answers for it
    pred,       \* the prediction made
    POST_TIME,  \* the global POST_TIME, a string
    started,    \* main has registered the job and started the scheduler
    jobs,       \* the scheduler's jobs: the hour and minute of each cron trigger
    clock,      \* the scheduler's wall clock: the day and the minute of the day
    posted,     \* the job fired in the current minute (a post_today task was created)
    reply,      \* what the last /autopost answered
    commanded   \* a /autopost with an argument has been handled (history variable)

storeVars == <<elo, results>>
procVars == <<pc, op, Ra, Rb, ret, hist>>
filterVars == <<items, out, fstatus>>
slateVars == <<upcoming, apiKey, channelId, request, sent>>
predVars == <<game, resp, pred>>
schedVars == <<POST_TIME, started, jobs, clock, posted, reply, commanded>>
vars == <<storeVars, procVars, LOCAL_TZ, now, filterVars, slateVars, predVars, schedVars>>

(***************************************************************************)
(* Bounds of the model.                                                    *)
(***************************************************************************)
MaxCalls == 1       \* calls made by each of two concurrent callers
MaxSeqCalls == 2    \* calls made by a single caller, one after the other
MaxScore == 1       \* scores are drawn from 0..MaxScore

(***************************************************************************)
(* Fixed-point scales and program constants.                               *)
(***************************************************************************)
RScale == 100           \* rating units per Elo point
EScale == 10000         \* units of an expected or actual score of 1.0
Ln10Fix == 23026        \* ln(10) in units of 1/EScale, rounded
ExpTerms == 12          \* terms of the series that evaluates 10 ** x
BaseRating == 150000    \* base=1500.0 of elo_get, in rating units
KFactor == 20           \* k=20.0 of elo_update
EloDivisor == 400       \* the 400 of the Elo expected-score formula

\* a competitor key f"{sport}:{name}", kept as the pair of its two parts
Key(sport, name) == <<sport, name>>
Keys == {Key("MLB", "A"), Key("MLB", "B"), Key("MLB", "C")}
Callers == {"interactive", "periodic"}
Scores == 0..MaxScore

\* a / b rounded to the nearest integer (b > 0)
RoundDiv(a, b) == (2 * a + b) \div (2 * b)

Abs(x) == IF x < 0 THEN -x ELSE x

(***************************************************************************)
(* 10 ** (d / 400) for a rating difference d (rating units), in units of   *)
(* 1/EScale: exp(x) with x = d * ln(10) / 400, summed term by term.        *)
(***************************************************************************)
RECURSIVE ExpSeries(_, _, _, _)
ExpSeries(x, n, term, acc) ==
    IF n > ExpTerms THEN acc
    ELSE LET t == RoundDiv(term * x, n * EScale)
         IN ExpSeries(x, n + 1, t, acc + t)

Pow10(d) ==
    LET x == RoundDiv(d * Ln10Fix, EloDivisor * RScale)
    IN ExpSeries(x, 1, EScale, EScale)

\* 1.0 / (1 + 10 ** (d / 400)), in units of 1/EScale
Expected(d) == RoundDiv(EScale * EScale, EScale + Pow10(d))

\* Sa = 1.0 if a_score > b_score else (0.5 if a_score == b_score else 0.0)
ActualScore(a_score, b_score) ==
    IF a_score > b_score THEN EScale
    ELSE IF a_score = b_score THEN EScale \div 2 ELSE 0

\* R + k * (S - E), in rating units
Adjusted(R, S, E) == R + RoundDiv(KFactor * RScale * (S - E), EScale)

\* a slip in line 108: Eb computed from the same difference as Ea
NewRatingsSameDiff(ra, rb, a_score, b_score) ==
    LET Ea == Expected(rb - ra)
        Eb == Expected(rb - ra)
        Sa == ActualScore(a_score, b_score)
        Sb == EScale - Sa
    IN <<Adjusted(ra, Sa, Ea), Adjusted(rb, Sb, Eb)>>

\* lines 107-112 of elo_update: the new ratings <<Ra2, Rb2>>
NewRatings(ra, rb, a_score, b_score) ==
    LET Ea == Expected(rb - ra)
        Eb == Expected(ra - rb)
        Sa == ActualScore(a_score, b_score)
        Sb == EScale - Sa
    IN <<Adjusted(ra, Sa, Ea), Adjusted(rb, Sb, Eb)>>

(***************************************************************************)
(* The sqlite statements of the store.  Each statement is one atomic step  *)
(* of the database; a caller's statements interleave with the other's.     *)
(***************************************************************************)
\* SELECT rating FROM elo WHERE key=?  (fetchone: is there a row)
HasRow(store, key) == key \in DOMAIN store

\* INSERT OR IGNORE INTO elo(key, rating) VALUES(?,?)
InsertOrIgnore(store, key, rating) ==
    IF key \in DOMAIN store THEN store
    ELSE [x \in DOMAIN store \cup {key} |-> IF x = key THEN rating ELSE store[x]]

\* INSERT OR REPLACE INTO elo(key, rating) VALUES(?,?)
InsertOrReplace(store, key, rating) ==
    [x \in DOMAIN store \cup {key} |-> IF x = key THEN rating ELSE store[x]]

EmptyStore == [x \in {} |-> 0]

(***************************************************************************)
(* elo_update run alone, from its first statement to its last: the store   *)
(* it leaves.  The reference the concurrent runs are compared with.        *)
(***************************************************************************)
ApplyUpdate(store, c) ==
    LET s1 == InsertOrIgnore(store, c.a_key, BaseRating)
        s2 == InsertOrIgnore(s1, c.b_key, BaseRating)
        nr == NewRatings(s2[c.a_key], s2[c.b_key], c.a_score, c.b_score)
    IN InsertOrReplace(InsertOrReplace(s2, c.a_key, nr[1]), c.b_key, nr[2])

(***************************************************************************)
(* The calls a caller makes.                                               *)
(***************************************************************************)
NoCall == [kind |-> "none"]
GetCall(key) == [kind |-> "get", key |-> key]
UpdateCall(a_key, b_key, a_score, b_score) ==
    [kind |-> "update", a_key |-> a_key, b_key |-> b_key,
     a_score |-> a_score, b_score |-> b_score]

\* a result is played between two different competitors
UpdateCalls ==
    {c \in {UpdateCall(a, b, x, y) : a \in Keys, b \in Keys, x \in Scores, y \in Scores} :
        c.a_key # c.b_key}

CallSet == {GetCall(k) : k \in Keys} \cup UpdateCalls

StoreInit ==
    /\ elo = EmptyStore
    /\ results = {}

\* a caller enters elo_get (from a predict function) or elo_update
Call(p, c, max) ==
    /\ pc[p] = "idle"
    /\ Len(hist[p]) < max
    /\ op' = [op EXCEPT ![p] = c]
    /\ pc' = [pc EXCEPT ![p] = IF c.kind = "get" THEN "get_select" ELSE "a_select"]
    /\ UNCHANGED <<elo, results, Ra, Rb, ret, hist>>
    /\ UNCHANGED <<LOCAL_TZ, now, filterVars, slateVars, predVars, schedVars>>

\* the caller's call returns
Return(p) == hist' = [hist EXCEPT ![p] = Append(@, op[p])]

\* elo_get, lines 92-93: the SELECT, and the return of the row found
GetSelect(p) ==
    /\ pc[p] = "get_select"
    /\ IF HasRow(elo, op[p].key)
       THEN /\ ret' = [ret EXCEPT ![p] = elo[op[p].key]]
            /\ pc' = [pc EXCEPT ![p] = "idle"]
            /\ Return(p)
       ELSE /\ pc' = [pc EXCEPT ![p] = "get_insert"]
            /\ UNCHANGED <<ret, hist>>
    /\ UNCHANGED <<elo, results, op, Ra, Rb>>
    /\ UNCHANGED <<LOCAL_TZ, now, filterVars, slateVars, predVars, schedVars>>

\* elo_get, lines 94-96: INSERT OR IGNORE, commit, return base
GetInsert(p) ==
    /\ pc[p] = "get_insert"
    /\ elo' = InsertOrIgnore(elo, op[p].key, BaseRating)
    /\ ret' = [ret EXCEPT ![p] = BaseRating]
    /\ pc' = [pc EXCEPT ![p] = "idle"]
    /\ Return(p)
    /\ UNCHANGED <<results, op, Ra, Rb>>
    /\ UNCHANGED <<LOCAL_TZ, now, filterVars, slateVars, predVars, schedVars>>

\* elo_update, line 105: Ra = elo_get(a_key), its SELECT
UpdSelectA(p) ==
    /\ pc[p] = "a_select"
    /\ IF HasRow(elo, op[p].a_key)
       THEN /\ Ra' = [Ra EXCEPT ![p] = elo[op[p].a_key]]
            /\ pc' = [pc EXCEPT ![p] = "b_select"]
       ELSE /\ pc' = [pc EXCEPT ![p] = "a_insert"]
            /\ UNCHANGED Ra
    /\ UNCHANGED <<elo, results, op, Rb, ret, hist>>
    /\ UNCHANGED <<LOCAL_TZ, now, filterVars, slateVars, predVars, schedVars>>

\* elo_update, line 105: Ra = elo_get(a_key), its INSERT OR IGNORE
UpdInsertA(p) ==
    /\ pc[p] = "a_insert"
    /\ elo' = InsertOrIgnore(elo, op[p].a_key, BaseRating)
    /\ Ra' = [Ra EXCEPT ![p] = BaseRating]
    /\ pc' = [pc EXCEPT ![p] = "b_select"]
    /\ UNCHANGED <<results, op, Rb, ret, hist>>
    /\ UNCHANGED <<LOCAL_TZ, now, filterVars, slateVars, predVars, schedVars>>

\* elo_update, line 106: Rb = elo_get(b_key), its SELECT
UpdSelectB(p) ==
    /\ pc[p] = "b_select"
    /\ IF HasRow(elo, op[p].b_key)
       THEN /\ Rb' = [Rb EXCEPT ![p] = elo[op[p].b_key]]
            /\ pc' = [pc EXCEPT ![p] = "set_a"]
       ELSE /\ pc' = [pc EXCEPT ![p] = "b_insert"]
            /\ UNCHANGED Rb
    /\ UNCHANGED <<elo, results, op, Ra, ret, hist>>
    /\ UNCHANGED <<LOCAL_TZ, now, filterVars, slateVars, predVars, schedVars>>

\* elo_update, line 106: Rb = elo_get(b_key), its INSERT OR IGNORE
UpdInsertB(p) ==
    /\ pc[p] = "b_insert"
    /\ elo' = InsertOrIgnore(elo, op[p].b_key, BaseRating)
    /\ Rb' = [Rb EXCEPT ![p] = BaseRating]
    /\ pc' = [pc EXCEPT ![p] = "set_a"]
    /\ UNCHANGED <<results, op, Ra, ret, hist>>
    /\ UNCHANGED <<LOCAL_TZ, now, filterVars, slateVars, predVars, schedVars>>

\* elo_update, lines 107-113: elo_set(a_key, Ra2)
UpdSetA(p) ==
    /\ pc[p] = "set_a"
    /\ elo' = InsertOrReplace(elo, op[p].a_key,
                  NewRatings(Ra[p], Rb[p], op[p].a_score, op[p].b_score)[1])
    /\ pc' = [pc EXCEPT ![p] = "set_b"]
    /\ UNCHANGED <<results, op, Ra, Rb, ret, hist>>
    /\ UNCHANGED <<LOCAL_TZ, now, filterVars, slateVars, predVars, schedVars>>

\* elo_update, line 113: elo_set(b_key, Rb2), and the return
UpdSetB(p) ==
    /\ pc[p] = "set_b"
    /\ elo' = InsertOrReplace(elo, op[p].b_key,
                  NewRatings(Ra[p], Rb[p], op[p].a_score, op[p].b_score)[2])
    /\ pc' = [pc EXCEPT ![p] = "idle"]
    /\ Return(p)
    /\ UNCHANGED <<results, op, Ra, Rb, ret>>
    /\ UNCHANGED <<LOCAL_TZ, now, filterVars, slateVars, predVars, schedVars>>

Step(p) ==
    \/ GetSelect(p)
    \/ GetInsert(p)
    \/ UpdSelectA(p)
    \/ UpdInsertA(p)
    \/ UpdSelectB(p)
    \/ UpdInsertB(p)
    \/ UpdSetA(p)
    \/ UpdSetB(p)

(***************************************************************************)
(* The today-filter.  A timestamp is the string the schedule source sends, *)
(* kept as its sequence of character codes: DDTHH:MM followed by Z or by   *)
(* +HH:MM / -HH:MM (the year and month, equal in all events of a slate,    *)
(* and the seconds are left out).  Instants are minutes since day 0, 00:00 *)
(* UTC.                                                                    *)
(***************************************************************************)
Ascii == [plus |-> 43, minus |-> 45, zero |-> 48, nine |-> 57, colon |-> 58,
          B |-> 66, D |-> 68, T |-> 84, Z |-> 90]

DayMinutes == 1440      \* timedelta(days=1), in minutes
HourMinutes == 60

TwoDigits(n) == <<Ascii.zero + (n \div 10), Ascii.zero + (n % 10)>>

\* the timestamp the schedule source writes for a wall time and an offset
IsoLocal(day, h, m) ==
    TwoDigits(day) \o <<Ascii.T>> \o TwoDigits(h) \o <<Ascii.colon>> \o TwoDigits(m)
IsoZ(day, h, m) == IsoLocal(day, h, m) \o <<Ascii.Z>>
IsoOff(day, h, m, offHours) ==
    IsoLocal(day, h, m)
        \o <<IF offHours < 0 THEN Ascii.minus ELSE Ascii.plus>>
        \o TwoDigits(Abs(offHours)) \o <<Ascii.colon>> \o TwoDigits(0)

\* str.replace("Z", "+00:00"): every Z of the string is replaced
RECURSIVE ReplaceZ(_)
ReplaceZ(s) ==
    IF s = <<>> THEN <<>>
    ELSE (IF Head(s) = Ascii.Z
          THEN <<Ascii.plus>> \o TwoDigits(0) \o <<Ascii.colon>> \o TwoDigits(0)
          ELSE <<Head(s)>>) \o ReplaceZ(Tail(s))

IsDigit(c) == c \in Ascii.zero..Ascii.nine
Num2(s, i) == (s[i] - Ascii.zero) * 10 + (s[i + 1] - Ascii.zero)

\* datetime.fromisoformat on DDTHH:MM[+HH:MM]: ok is FALSE where it raises
\* ValueError; aware says whether the string carries an offset
ParseIso(s) ==
    LET wallShape ==
            /\ Len(s) \in {8, 14}
            /\ \A i \in {1, 2, 4, 5, 7, 8} : IsDigit(s[i])
            /\ s[6] = Ascii.colon
            /\ Num2(s, 1) \in 1..31
            /\ Num2(s, 4) < 24
            /\ Num2(s, 7) < HourMinutes
        offShape ==
            Len(s) = 14 =>
                /\ s[9] \in {Ascii.plus, Ascii.minus}
                /\ \A i \in {10, 11, 13, 14} : IsDigit(s[i])
                /\ s[12] = Ascii.colon
                /\ Num2(s, 10) < 24
                /\ Num2(s, 13) < HourMinutes
    IN IF wallShape /\ offShape
       THEN [ok |-> TRUE,
             aware |-> Len(s) = 14,
             wall |-> Num2(s, 1) * DayMinutes + Num2(s, 4) * HourMinutes + Num2(s, 7),
             off |-> IF Len(s) = 14
                     THEN (IF s[9] = Ascii.minus THEN -1 ELSE 1)
                          * (Num2(s, 10) * HourMinutes + Num2(s, 13))
                     ELSE 0]
       ELSE [ok |-> FALSE, aware |-> FALSE, wall |-> 0, off |-> 0]

(***************************************************************************)
(* Time zones (ZoneInfo): the offset from UTC in minutes, and the wall     *)
(* time at which the zone changes from std to dst.  Europe/Amsterdam puts  *)
(* its clocks forward on day 2 at 02:00; America/New_York does not change  *)
(* within the days modelled.                                               *)
(***************************************************************************)
ZoneNames == {"Europe/Amsterdam", "America/New_York"}
ZoneRule ==
    [z \in ZoneNames |->
        IF z = "Europe/Amsterdam"
        THEN [std |-> 60, dst |-> 120, change |-> 2 * DayMinutes + 2 * HourMinutes]
        ELSE [std |-> -300, dst |-> -300, change |-> 0]]

\* utcoffset() of a wall time of the zone
OffsetAtWall(z, wall) ==
    IF wall >= ZoneRule[z].change THEN ZoneRule[z].dst ELSE ZoneRule[z].std

\* utcoffset() of an instant: what astimezone(zone) applies
OffsetAtInstant(z, utc) ==
    IF utc >= ZoneRule[z].change - ZoneRule[z].std THEN ZoneRule[z].dst ELSE ZoneRule[z].std

\* the zone of the process, which astimezone() gives a timestamp without offset
SystemZone == "Europe/Amsterdam"

\* datetime.fromisoformat(...).astimezone(timezone.utc), for a parsed timestamp
ToUtc(parsed) ==
    IF parsed.aware THEN parsed.wall - parsed.off
    ELSE parsed.wall - OffsetAtWall(SystemZone, parsed.wall)

\* local_date_bounds and line 336: <<start_u, end_u>> for the local date of now
LocalDateBounds(z, today) ==
    LET start == today * DayMinutes
        end == start + DayMinutes
    IN <<start - OffsetAtWall(z, start), end - OffsetAtWall(z, end)>>

\* it.get("commence_time") is None or empty: line 340
NotIso(it) == "commence_time" \notin DOMAIN it \/ it.commence_time = <<>>

\* line 341
ItemUtc(it) == ToUtc(ParseIso(ReplaceZ(it.commence_time)))

\* the end bound taken as part of the day
InBoundsClosed(bounds, dt) == bounds[1] <= dt /\ dt <= bounds[2]

\* line 342
InBounds(bounds, dt) == bounds[1] <= dt /\ dt < bounds[2]

\* lines 338-343: the events kept, in input order
RECURSIVE KeepToday(_, _)
KeepToday(its, bounds) ==
    IF its = <<>> THEN <<>>
    ELSE LET it == Head(its)
             rest == KeepToday(Tail(its), bounds)
         IN IF NotIso(it) THEN rest
            ELSE IF InBounds(bounds, ItemUtc(it)) THEN <<it>> \o rest ELSE rest

\* str < str of Python: by character code, a proper prefix first
RECURSIVE StrLess(_, _)
StrLess(s, t) ==
    IF t = <<>> THEN FALSE
    ELSE IF s = <<>> THEN TRUE
    ELSE IF Head(s) # Head(t) THEN Head(s) < Head(t)
    ELSE StrLess(Tail(s), Tail(t))

\* x.get("commence_time", ""): the sort key of line 344
SortKey(it) == IF "commence_time" \in DOMAIN it THEN it.commence_time ELSE <<>>

\* list.sort(key=...): stable, an element goes after those not greater
RECURSIVE InsertByKey(_, _)
InsertByKey(sorted, it) ==
    IF sorted = <<>> THEN <<it>>
    ELSE IF StrLess(SortKey(it), SortKey(Head(sorted)))
         THEN <<it>> \o sorted
         ELSE <<Head(sorted)>> \o InsertByKey(Tail(sorted), it)

RECURSIVE SortByKey(_)
SortByKey(its) ==
    IF its = <<>> THEN <<>>
    ELSE InsertByKey(SortByKey(SubSeq(its, 1, Len(its) - 1)), its[Len(its)])

\* line 341 raises for some event the loop reaches
ParseRaises(its) ==
    \E i \in 1..Len(its) :
        ~NotIso(its[i]) /\ ~ParseIso(ReplaceZ(its[i].commence_time)).ok

(***************************************************************************)
(* The events of a schedule.  An event carries its position in the list    *)
(* (id, standing for the rest of its fields), its two teams and, unless    *)
(* the field is missing, its commence_time.                                *)
(***************************************************************************)
MaxItems == 3       \* events in the list handed to filter_today

Garbled == <<Ascii.T, Ascii.B, Ascii.D>>     \* "TBD"

TimeStrings ==
    << IsoZ(1, 22, 59),         \* a minute before Amsterdam's day 2 starts
       IsoOff(2, 0, 0, 1),      \* Amsterdam's day 2, 00:00 (23:00Z of day 1)
       IsoOff(2, 10, 0, 2),     \* 08:00Z
       IsoZ(2, 9, 0),           \* 09:00Z
       IsoOff(2, 4, 0, -5),     \* 09:00Z again, written with another offset
       IsoZ(2, 21, 59),         \* Amsterdam's day 2, 23:59
       IsoZ(2, 22, 0),          \* Amsterdam's day 3, 00:00
       Garbled,
       <<>> >>

Days == {2, 3}      \* the local dates a call may happen on

Event(i, t) == [id |-> i, home_team |-> "A", away_team |-> "B", commence_time |-> t]
EventNoTime(i) == [id |-> i, home_team |-> "A", away_team |-> "B"]

\* the lists of up to n events: each with one of the timestamps, or (0) none
EventLists(n) ==
    UNION { { [i \in 1..k |-> IF f[i] = 0 THEN EventNoTime(i)
                                ELSE Event(i, TimeStrings[f[i]])] :
                f \in [1..k -> 0..Len(TimeStrings)] } : k \in 0..n }

ClockInit ==
    /\ LOCAL_TZ = "Europe/Amsterdam"
    /\ now = [zone |-> "Europe/Amsterdam", date |-> 2]

FilterIdle ==
    /\ items = <<>>
    /\ out = <<>>
    /\ fstatus = "ready"

FilterInit ==
    /\ items \in EventLists(MaxItems)
    /\ out = <<>>
    /\ fstatus = "ready"

\* filter_today(its) on local date d of zone z: the list returned
FilterTodayList(its, z, d) == SortByKey(KeepToday(its, LocalDateBounds(z, d)))

\* filter_today(items), called on local date d
FilterToday(d) ==
    /\ fstatus = "ready"
    /\ now' = [zone |-> LOCAL_TZ, date |-> d]
    /\ IF ParseRaises(items)
       THEN /\ fstatus' = "raised"
            /\ out' = <<>>
       ELSE /\ fstatus' = "returned"
            /\ out' = FilterTodayList(items, LOCAL_TZ, d)
    /\ UNCHANGED <<storeVars, procVars, LOCAL_TZ, items, slateVars, predVars, schedVars>>

\* cmd_tz with an argument: ZoneInfo(arg) raises for an unknown zone
CmdTz(arg) ==
    /\ LOCAL_TZ' = IF arg \in ZoneNames THEN arg ELSE LOCAL_TZ
    /\ UNCHANGED <<storeVars, procVars, now, filterVars, slateVars, predVars, schedVars>>

ZoneArgs == ZoneNames \cup {"Mars/Phobos"}

(***************************************************************************)
(* The slates: cmd_today and post_today.  A message is kept by what it is: *)
(* a league's slate (with the events rendered), a league's placeholder,    *)
(* or one of the fixed texts.                                              *)
(***************************************************************************)
Leagues == <<"mlb", "nfl", "ufc">>      \* the order of post_today
SPORT_KEYS == {"mlb", "nfl", "ufc"}
Prefix == [mlb |-> "MLB", nfl |-> "NFL", ufc |-> "UFC"]

\* the events a league's schedule may hold
SlateLists ==
    {<<>>, <<Event(1, IsoZ(2, 9, 0))>>, <<Event(1, IsoZ(3, 9, 0))>>, <<Event(1, Garbled)>>}

\* what the user types after /today
ArgLists == {<<>>, <<"all">>, <<"MLB">>, <<"mlb">>, <<"nfl">>, <<"ufc">>, <<"nhl">>}

\* str.lower(), on the words drawn
Lower(a) == IF a = "MLB" THEN "mlb" ELSE a

NoRequest == [kind |-> "none", args |-> <<>>, status |-> "none"]

SlateIdle ==
    /\ upcoming = [lg \in SPORT_KEYS |-> <<>>]
    /\ apiKey = TRUE
    /\ channelId = TRUE
    /\ request = NoRequest
    /\ sent = <<>>

SlateInit ==
    /\ upcoming \in [SPORT_KEYS -> SlateLists]
    /\ apiKey \in BOOLEAN
    /\ channelId \in BOOLEAN
    /\ request = NoRequest
    /\ sent = <<>>

\* get_today_by_league(lg) raises / returns
LeagueRaises(lg) == apiKey /\ ParseRaises(upcoming[lg])
LeagueToday(lg, z, d) == IF apiKey THEN FilterTodayList(upcoming[lg], z, d) ELSE <<>>

\* the keys a block's predictions read with elo_get: the two sides of each
\* event (ufc_features: an event without "teams" gives the default names)
BlockKeys(lg, list) ==
    UNION { IF lg = "ufc"
            THEN {Key(Prefix[lg], "Fighter A"), Key(Prefix[lg], "Fighter B")}
            ELSE {Key(Prefix[lg], list[i].home_team), Key(Prefix[lg], list[i].away_team)}
          : i \in 1..Len(list) }

\* the store after elo_get of each of the keys
AfterGets(store, keys) ==
    [k \in DOMAIN store \cup keys |-> IF k \in DOMAIN store THEN store[k] ELSE BaseRating]

\* block_mlb / block_nfl / block_ufc: the text returned
Block(lg, list) ==
    IF list # <<>>
    THEN [kind |-> "slate", league |-> lg, ids |-> [i \in 1..Len(list) |-> list[i].id]]
    ELSE [kind |-> "placeholder", league |-> lg]

Text(kind) == [kind |-> kind]

\* lines 376-381: the blocks of /today all
RECURSIVE AllBlocks(_, _, _)
AllBlocks(lgs, z, d) ==
    IF lgs = <<>> THEN <<>>
    ELSE LET list == LeagueToday(Head(lgs), z, d)
         IN (IF list # <<>> THEN <<Block(Head(lgs), list)>> ELSE <<>>)
                \o AllBlocks(Tail(lgs), z, d)

\* the leagues post_today reaches before get_today_by_league raises
RECURSIVE Reached(_)
Reached(lgs) ==
    IF lgs = <<>> \/ LeagueRaises(Head(lgs)) THEN <<>>
    ELSE <<Head(lgs)>> \o Reached(Tail(lgs))

AllKeys(lgs, z, d) ==
    UNION {BlockKeys(lgs[i], LeagueToday(lgs[i], z, d)) : i \in 1..Len(lgs)}

\* cmd_today with the words args, on local date d
CmdToday(args, d) ==
    LET a == [i \in 1..Len(args) |-> Lower(args[i])]
        z == LOCAL_TZ
        done == [kind |-> "cmd_today", args |-> args, status |-> "done"]
        raised == [kind |-> "cmd_today", args |-> args, status |-> "raised"]
    IN /\ now' = [zone |-> z, date |-> d]
       /\ IF ~apiKey
          THEN /\ sent' = <<Text("set_key")>>
               /\ request' = done
               /\ UNCHANGED elo
          ELSE IF a = <<>>
          THEN /\ sent' = <<Text("usage")>>
               /\ request' = done
               /\ UNCHANGED elo
          ELSE IF a[1] = "all"
          THEN IF \E lg \in SPORT_KEYS : LeagueRaises(lg)
               THEN /\ sent' = <<>>
                    /\ request' = raised
                    /\ UNCHANGED elo
               ELSE /\ sent' = (IF AllBlocks(Leagues, z, d) = <<>>
                                THEN <<Text("no_events")>>
                                ELSE AllBlocks(Leagues, z, d))
                    /\ request' = done
                    /\ elo' = AfterGets(elo, AllKeys(Leagues, z, d))
          ELSE IF a[1] \in SPORT_KEYS
          THEN IF LeagueRaises(a[1])
               THEN /\ sent' = <<>>
                    /\ request' = raised
                    /\ UNCHANGED elo
               ELSE /\ sent' = <<Block(a[1], LeagueToday(a[1], z, d))>>
                    /\ request' = done
                    /\ elo' = AfterGets(elo, BlockKeys(a[1], LeagueToday(a[1], z, d)))
          ELSE /\ sent' = <<Text("use")>>
               /\ request' = done
               /\ UNCHANGED elo
       /\ UNCHANGED <<results, procVars, LOCAL_TZ, filterVars, upcoming, apiKey, channelId, predVars, schedVars>>

\* post_today, run by the scheduler on local date d
PostToday(d) ==
    LET z == LOCAL_TZ
        reached == Reached(Leagues)
    IN /\ now' = [zone |-> z, date |-> d]
       /\ IF ~channelId
          THEN /\ sent' = <<>>
               /\ request' = [kind |-> "post_today", args |-> <<>>, status |-> "done"]
               /\ UNCHANGED elo
          ELSE IF ~apiKey
          THEN /\ sent' = <<Text("set_key")>>
               /\ request' = [kind |-> "post_today", args |-> <<>>, status |-> "done"]
               /\ UNCHANGED elo
          ELSE /\ sent' = <<Text("header")>>
                    \o [i \in 1..Len(reached) |-> Block(reached[i], LeagueToday(reached[i], z, d))]
               /\ request' = [kind |-> "post_today", args |-> <<>>,
                              status |-> IF Len(reached) = Len(Leagues) THEN "done" ELSE "raised"]
               /\ elo' = AfterGets(elo, AllKeys(reached, z, d))
       /\ UNCHANGED <<results, procVars, LOCAL_TZ, filterVars, upcoming, apiKey, channelId, predVars, schedVars>>

(***************************************************************************)
(* The predictions.  A temperature is kept in tenths of a degree, a wind   *)
(* speed from the service in tenths of its unit and in km/h in hundredths, *)
(* a precipitation probability in percent.  An absent value (None) is a    *)
(* field the weather record does not have.                                 *)
(***************************************************************************)
TScale == 10            \* temperature units per degree
MlbHomeField == 30      \* Rh += 30.0
ParkBaseline == 100     \* (pf - 100), and the default park factor
ParkDivisor == 5        \* * 0.2
MlbMildTemp == 20       \* (temp_c - 20)
MlbTempDivisor == 2     \* * 0.5
MlbWindLimit == 30      \* wind_kmh > 30
MlbWindBonus == 3       \* Rh += 3
NflHomeField == 55      \* Rh += 55.0
DefaultRest == 7        \* rest_home = 7; rest_away = 7
NflWindLimit == 32      \* wind_kmh >= 32
NflWindBonus == 5       \* Rh += 5
NflColdLimit == 5       \* temp_c <= 5
NflColdBonus == 3       \* Rh += 3
NflRainLimit == 60      \* precip_prob >= 60
NflRainBonus == 2       \* Rh += 2
KmhPerUnit == 36        \* float(w) * 3.6, tenths to hundredths

MlbTeams == {"Colorado Rockies", "Cincinnati Reds", "Miami Marlins"}
NflTeams == {"Green Bay Packers", "Los Angeles Rams", "Dallas Cowboys"}

\* TEAM_PARK, TEAM_STADIUM: the rows of the teams modelled
TEAM_PARK ==
    [t \in {"Colorado Rockies", "Cincinnati Reds"} |->
        IF t = "Colorado Rockies" THEN "Coors Field" ELSE "Great American Ball Park"]
TEAM_STADIUM ==
    [t \in {"Green Bay Packers", "Los Angeles Rams"} |->
        IF t = "Green Bay Packers" THEN "Lambeau Field" ELSE "SoFi Stadium"]
MLB_PARK_FACTORS ==
    [v \in {"Coors Field", "Great American Ball Park"} |->
        IF v = "Coors Field" THEN 118 ELSE 104]
NFL_OUTDOOR_STADIA ==
    [v \in {"Lambeau Field", "SoFi Stadium"} |-> v = "Lambeau Field"]
STADIUM_COORDS == {"Coors Field", "Lambeau Field", "SoFi Stadium"}

NoWeather == [x \in {} |-> 0]
Has(wx, f) == f \in DOMAIN wx

\* what the weather service may answer: a failure (transport error, timeout,
\* bad status), or hourly lists, any of which may be empty
Temps == {-50, 50, 51, 200, 300}
Winds == {0, 83, 84, 88, 89}
Precips == {0, 59, 60}
Hourly ==
    { f \in UNION { [fs -> Temps \cup Winds \cup Precips] : fs \in SUBSET {"t", "w", "p"} } :
        /\ (Has(f, "t") => f["t"] \in Temps)
        /\ (Has(f, "w") => f["w"] \in Winds)
        /\ (Has(f, "p") => f["p"] \in Precips) }
Responses ==
    {[ok |-> FALSE, hourly |-> NoWeather]} \cup {[ok |-> TRUE, hourly |-> h] : h \in Hourly}

\* a wrong except clause: zeros stand in for the values that are missing
OpenMeteoZeros(r) ==
    IF ~r.ok THEN [f \in {"t", "w", "p"} |-> 0]
    ELSE [f \in DOMAIN r.hourly |->
             IF f = "w" THEN r.hourly[f] * KmhPerUnit ELSE r.hourly[f]]

\* open_meteo_temp_wind: (t, w, p), all absent when the request fails
OpenMeteo(r) ==
    IF ~r.ok THEN NoWeather
    ELSE [f \in DOMAIN r.hourly |->
             IF f = "w" THEN r.hourly[f] * KmhPerUnit ELSE r.hourly[f]]

\* the rating elo_get returns
EloGet(store, key) == IF HasRow(store, key) THEN store[key] ELSE BaseRating

\* 1.0 / (1.0 + 10 ** (-diff/400))
WinProb(diff) == Expected(-diff)

\* mlb_features: the park factor and the weather (t, w) of a game
MlbFeatures(g, r) ==
    LET known == g.home_team \in DOMAIN TEAM_PARK
        fetch == known /\ TEAM_PARK[g.home_team] \in STADIUM_COORDS
        wx == IF fetch THEN OpenMeteo(r) ELSE NoWeather
    IN [pf |-> IF known /\ TEAM_PARK[g.home_team] \in DOMAIN MLB_PARK_FACTORS
               THEN MLB_PARK_FACTORS[TEAM_PARK[g.home_team]] ELSE ParkBaseline,
        fetched |-> fetch,
        wx |-> [f \in DOMAIN wx \ {"p"} |-> wx[f]]]

\* mlb_predict: the ratings read, the adjusted home rating and ph
MlbPredict(store, g, ft) ==
    LET Rh0 == EloGet(store, Key("MLB", g.home_team))
        Ra0 == EloGet(AfterGets(store, {Key("MLB", g.home_team)}), Key("MLB", g.away_team))
        Rh1 == Rh0 + MlbHomeField * RScale
        Rh2 == Rh1 + ((ft.pf - ParkBaseline) * RScale) \div ParkDivisor
        Rh3 == IF Has(ft.wx, "t")
               THEN Rh2 + ((ft.wx["t"] - MlbMildTemp * TScale) * RScale) \div (MlbTempDivisor * TScale)
               ELSE Rh2
        Rh4 == IF Has(ft.wx, "w") /\ ft.wx["w"] > MlbWindLimit * RScale
               THEN Rh3 + MlbWindBonus * RScale
               ELSE Rh3
    IN [kind |-> "mlb", error |-> FALSE, fetched |-> ft.fetched,
        base_home |-> Rh0, base_away |-> Ra0, home |-> Rh4, ph |-> WinProb(Rh4 - Ra0)]

\* nfl_features: the stadium, its outdoor flag, the weather and the rest days
NflFeatures(g, r) ==
    LET known == g.home_team \in DOMAIN TEAM_STADIUM
        outdoor == known /\ TEAM_STADIUM[g.home_team] \in DOMAIN NFL_OUTDOOR_STADIA
                         /\ NFL_OUTDOOR_STADIA[TEAM_STADIUM[g.home_team]]
        fetch == known /\ outdoor /\ TEAM_STADIUM[g.home_team] \in STADIUM_COORDS
    IN [outdoor |-> outdoor,
        fetched |-> fetch,
        wx |-> IF fetch THEN OpenMeteo(r) ELSE NoWeather,
        rest_home |-> DefaultRest,
        rest_away |-> DefaultRest]

\* nfl_predict: a value that is None or 0 is falsy
NflPredict(store, g, ft) ==
    LET Rh0 == EloGet(store, Key("NFL", g.home_team))
        Ra0 == EloGet(AfterGets(store, {Key("NFL", g.home_team)}), Key("NFL", g.away_team))
        Rh1 == Rh0 + NflHomeField * RScale
        Rh2 == Rh1 + ((ft.rest_home - ft.rest_away) * 3 * RScale) \div 2
        wind == IF ft.outdoor /\ Has(ft.wx, "w") /\ ft.wx["w"] # 0
                   /\ ft.wx["w"] >= NflWindLimit * RScale
                THEN NflWindBonus * RScale ELSE 0
        cold == IF ft.outdoor /\ Has(ft.wx, "t") /\ ft.wx["t"] <= NflColdLimit * TScale
                THEN NflColdBonus * RScale ELSE 0
        rain == IF ft.outdoor /\ Has(ft.wx, "p") /\ ft.wx["p"] # 0
                   /\ ft.wx["p"] >= NflRainLimit
                THEN NflRainBonus * RScale ELSE 0
        Rh3 == Rh2 + wind + cold + rain
    IN [kind |-> "nfl", error |-> FALSE, fetched |-> ft.fetched,
        base_home |-> Rh0, base_away |-> Ra0, home |-> Rh3, ph |-> WinProb(Rh3 - Ra0)]

Games ==
    {[league |-> "mlb", home_team |-> h, away_team |-> a] :
        h \in MlbTeams, a \in {"Miami Marlins", "Boston Red Sox"}}
    \cup
    {[league |-> "nfl", home_team |-> h, away_team |-> a] :
        h \in NflTeams, a \in {"Dallas Cowboys", "Chicago Bears"}}

NoGame == [league |-> "none", home_team |-> "", away_team |-> ""]
NoPred == [kind |-> "none"]

PredIdle ==
    /\ game = NoGame
    /\ resp = [ok |-> FALSE, hourly |-> NoWeather]
    /\ pred = NoPred

PredInit ==
    /\ game \in {g \in Games : g.home_team # g.away_team}
    /\ resp \in Responses
    /\ pred = NoPred

\* the stores a prediction may find: a new one, or one with a result settled
PredStores(g) ==
    LET h == Key(Prefix[g.league], g.home_team)
        a == Key(Prefix[g.league], g.away_team)
    IN {EmptyStore, ApplyUpdate(EmptyStore, UpdateCall(h, a, 1, 0)),
        ApplyUpdate(EmptyStore, UpdateCall(h, a, 0, 1))}

\* one line of block_mlb: mlb_features, then mlb_predict
MlbGame ==
    /\ game.league = "mlb"
    /\ pred = NoPred
    /\ pred' = MlbPredict(elo, game, MlbFeatures(game, resp))
    /\ elo' = AfterGets(elo, {Key("MLB", game.home_team), Key("MLB", game.away_team)})
    /\ UNCHANGED <<results, procVars, LOCAL_TZ, now, filterVars, slateVars, game, resp, schedVars>>

\* one line of block_nfl: nfl_features, then nfl_predict
NflGame ==
    /\ game.league = "nfl"
    /\ pred = NoPred
    /\ pred' = NflPredict(elo, game, NflFeatures(game, resp))
    /\ elo' = AfterGets(elo, {Key("NFL", game.home_team), Key("NFL", game.away_team)})
    /\ UNCHANGED <<results, procVars, LOCAL_TZ, now, filterVars, slateVars, game, resp, schedVars>>

(***************************************************************************)
(* The daily post: POST_TIME, the cron job that main registers through     *)
(* schedule_job before polling starts, and /autopost.  POST_TIME is kept   *)
(* as its sequence of character codes.  The clock is the scheduler's wall  *)
(* clock; firing the job creates the post_today task.                      *)
(***************************************************************************)
MaxDays == 2            \* days the clock runs through
DefaultHour == 9        \* hh, mm = (9, 0)
DefaultMinute == 0

\* the text "HH:MM" of an hour and a minute
TimeText(h, m) == TwoDigits(h) \o <<Ascii.colon>> \o TwoDigits(m)

\* texts that are not a time: no colon, no numbers, three parts
NoColon == <<Ascii.T, Ascii.B, Ascii.D>>
NotNumbers == <<Ascii.T, Ascii.colon, Ascii.B>>
WithSeconds == TimeText(9, 0) \o <<Ascii.colon>> \o TwoDigits(0)

\* str.split(":"): the pieces between the colons
RECURSIVE SplitColon(_)
SplitColon(s) ==
    IF \A i \in 1..Len(s) : s[i] # Ascii.colon THEN <<s>>
    ELSE LET i == CHOOSE x \in 1..Len(s) :
                      s[x] = Ascii.colon /\ \A y \in 1..(x - 1) : s[y] # Ascii.colon
         IN <<SubSeq(s, 1, i - 1)>> \o SplitColon(SubSeq(s, i + 1, Len(s)))

\* int(x) of a piece: raises ValueError unless the piece is a run of digits
IntOk(x) == Len(x) > 0 /\ \A i \in 1..Len(x) : IsDigit(x[i])

RECURSIVE IntValue(_)
IntValue(x) ==
    IF x = <<>> THEN 0
    ELSE IntValue(SubSeq(x, 1, Len(x) - 1)) * 10 + (x[Len(x)] - Ascii.zero)

\* lines 439-442 of schedule_job: hh, mm from POST_TIME, (9, 0) on any exception
ParsePostTime(s) ==
    LET parts == SplitColon(s)
    IN IF Len(parts) = 2 /\ IntOk(parts[1]) /\ IntOk(parts[2])
       THEN [hour |-> IntValue(parts[1]), minute |-> IntValue(parts[2])]
       ELSE [hour |-> DefaultHour, minute |-> DefaultMinute]

\* POST_TIME as the environment sets it (default "09:00")
StartTimes == {TimeText(9, 0), TimeText(18, 30), NoColon, NotNumbers, WithSeconds}

\* context.args of a /autopost message
AutopostArgs ==
    {<<>>} \cup {<<t>> : t \in {TimeText(9, 0), TimeText(18, 30), TimeText(7, 5), NoColon}}

NoReply == [kind |-> "none"]

SchedIdle ==
    /\ POST_TIME = TimeText(9, 0)
    /\ started = FALSE
    /\ jobs = <<>>
    /\ clock = [day |-> 1, minute |-> 0]
    /\ posted = FALSE
    /\ reply = NoReply
    /\ commanded = FALSE

SchedInit ==
    /\ POST_TIME \in StartTimes
    /\ started = FALSE
    /\ jobs = <<>>
    /\ clock = [day |-> 1, minute |-> 0]
    /\ posted = FALSE
    /\ reply = NoReply
    /\ commanded = FALSE

\* main, lines 458-460: schedule_job(application, scheduler); scheduler.start()
ScheduleJob ==
    /\ ~started
    /\ jobs' = Append(jobs, ParsePostTime(POST_TIME))
    /\ started' = TRUE
    /\ UNCHANGED <<POST_TIME, clock, posted, reply, commanded>>
    /\ UNCHANGED <<storeVars, procVars, LOCAL_TZ, now, filterVars, slateVars, predVars>>

\* cmd_autopost, handled once run_polling has begun
CmdAutopost(args) ==
    /\ started
    /\ IF args = <<>>
       THEN /\ reply' = [kind |-> "current", time |-> POST_TIME]
            /\ UNCHANGED <<POST_TIME, commanded>>
       ELSE /\ POST_TIME' = args[1]
            /\ reply' = [kind |-> "set", time |-> args[1]]
            /\ commanded' = TRUE
    /\ UNCHANGED <<started, jobs, clock, posted>>
    /\ UNCHANGED <<storeVars, procVars, LOCAL_TZ, now, filterVars, slateVars, predVars>>

\* the cron trigger of a job matches a minute of the day
CronMatches(j, minute) ==
    j.hour = minute \div HourMinutes /\ j.minute = minute % HourMinutes

\* a minute passes; the scheduler fires every job whose trigger matches it
Tick ==
    /\ ~(clock.day = MaxDays /\ clock.minute = DayMinutes - 1)
    /\ clock' = IF clock.minute = DayMinutes - 1
                THEN [day |-> clock.day + 1, minute |-> 0]
                ELSE [day |-> clock.day, minute |-> clock.minute + 1]
    /\ posted' = \E i \in 1..Len(jobs) : CronMatches(jobs[i], clock'.minute)
    /\ UNCHANGED <<POST_TIME, started, jobs, reply, commanded>>
    /\ UNCHANGED <<storeVars, procVars, LOCAL_TZ, now, filterVars, slateVars, predVars>>

(***************************************************************************)
(* Specifications.                                                         *)
(***************************************************************************)
ProcInit ==
    /\ pc = [p \in Callers |-> "idle"]
    /\ op = [p \in Callers |-> NoCall]
    /\ Ra = [p \in Callers |-> 0]
    /\ Rb = [p \in Callers |-> 0]
    /\ ret = [p \in Callers |-> 0]
    /\ hist = [p \in Callers |-> <<>>]

Init == StoreInit /\ ProcInit /\ ClockInit /\ FilterIdle /\ SlateIdle /\ PredIdle /\ SchedIdle

\* two callers, the interactive call site and the periodic trigger
Next ==
    \/ \E p \in Callers : \E c \in CallSet : Call(p, c, MaxCalls)
    \/ \E p \in Callers : Step(p)

Spec == Init /\ [][Next]_vars

\* one caller alone: its calls run one after the other
NextSeq ==
    \/ \E c \in CallSet : Call("interactive", c, MaxSeqCalls)
    \/ Step("interactive")

SpecSeq == Init /\ [][NextSeq]_vars

\* the today-filter on a drawn list, with /tz commands before it
InitFilter ==
    StoreInit /\ ProcInit /\ ClockInit /\ FilterInit /\ SlateIdle /\ PredIdle /\ SchedIdle

NextFilter ==
    \/ \E d \in Days : FilterToday(d)
    \/ \E arg \in ZoneArgs : CmdTz(arg)

SpecFilter == InitFilter /\ [][NextFilter]_vars

\* the slate requests on drawn schedules
InitSlate ==
    StoreInit /\ ProcInit /\ ClockInit /\ FilterIdle /\ SlateInit /\ PredIdle /\ SchedIdle

NextSlate ==
    \/ \E args \in ArgLists : \E d \in Days : CmdToday(args, d)
    \/ \E d \in Days : PostToday(d)
    \/ \E arg \in ZoneArgs : CmdTz(arg)

SpecSlate == InitSlate /\ [][NextSlate]_vars

\* one prediction for a drawn game, weather answer and store
InitPredict ==
    /\ PredInit
    /\ elo \in PredStores(game)
    /\ results = {}
    /\ ProcInit /\ ClockInit /\ FilterIdle /\ SlateIdle /\ SchedIdle

NextPredict == MlbGame \/ NflGame

SpecPredict == InitPredict /\ [][NextPredict]_vars

\* the bot from startup on: the job is registered, minutes pass, /autopost arrives
InitAutopost ==
    StoreInit /\ ProcInit /\ ClockInit /\ FilterIdle /\ SlateIdle /\ PredIdle /\ SchedInit

NextAutopost ==
    \/ ScheduleJob
    \/ \E args \in AutopostArgs : CmdAutopost(args)
    \/ Tick

SpecAutopost == InitAutopost /\ [][NextAutopost]_vars

RECURSIVE SumRatings(_, _)
SumRatings(store, ks) ==
    IF ks = {} THEN 0
    ELSE LET k == CHOOSE x \in ks : TRUE
         IN store[k] + SumRatings(store, ks \ {k})

TotalRating(store) == SumRatings(store, DOMAIN store)

NumUpdates(h) == Cardinality({i \in 1..Len(h) : h[i].kind = "update"})

AllIdle == \A p \in Callers : pc[p] = "idle"

LastCall(p) == hist[p][Len(hist[p])]

(***************************************************************************)
(* C1: settling the same result twice in sequence leaves the ratings of    *)
(* both competitors as they are after settling it once.                    *)
(***************************************************************************)
C1_IdempotentSettlement ==
    \A c \in UpdateCalls :
        (pc["interactive"] = "idle" /\ hist["interactive"] = <<c, c>>)
            => elo = ApplyUpdate(EmptyStore, c)

(***************************************************************************)
(* C2: when both callers settle the same result concurrently, the final    *)
(* ratings are those after exactly one application of the update.          *)
(***************************************************************************)
C2_SettledAtMostOnce ==
    \A c \in UpdateCalls :
        (AllIdle /\ \A p \in Callers : hist[p] = <<c>>)
            => elo = ApplyUpdate(EmptyStore, c)

(***************************************************************************)
(* C3: when the two callers settle different results that share a          *)
(* competitor, the final ratings are those of the two updates run one      *)
(* after the other in some order.                                          *)
(***************************************************************************)
C3_NoLostUpdate ==
    \A c1 \in UpdateCalls : \A c2 \in UpdateCalls :
        (/\ c1 # c2
         /\ {c1.a_key, c1.b_key} \cap {c2.a_key, c2.b_key} # {}
         /\ AllIdle
         /\ hist["interactive"] = <<c1>>
         /\ hist["periodic"] = <<c2>>)
            => \/ elo = ApplyUpdate(ApplyUpdate(EmptyStore, c1), c2)
               \/ elo = ApplyUpdate(ApplyUpdate(EmptyStore, c2), c1)

(***************************************************************************)
(* C4: one paired update leaves the sum of the two ratings unchanged, and  *)
(* after any sequence of updates the total rating is 1500 times the number *)
(* of initialized competitors.  Both up to the rounding of the arithmetic: *)
(* one rating unit (0.01 point) for each update applied.                   *)
(***************************************************************************)
C4_ZeroSum ==
    LET p == "interactive"
    IN pc[p] = "idle" =>
        /\ (hist[p] # <<>> /\ LastCall(p).kind = "update") =>
              Abs((elo[LastCall(p).a_key] + elo[LastCall(p).b_key])
                  - (Ra[p] + Rb[p])) <= 1
        /\ Abs(TotalRating(elo) - BaseRating * Cardinality(DOMAIN elo))
              <= NumUpdates(hist[p])

\* a second update has been applied to unequal ratings and was no draw
C4_Witness ==
    LET p == "interactive"
    IN /\ pc[p] = "idle"
       /\ NumUpdates(hist[p]) = 2
       /\ Ra[p] # Rb[p]
       /\ LastCall(p).a_score # LastCall(p).b_score
       /\ elo[LastCall(p).a_key] # Ra[p]

(***************************************************************************)
(* C5: elo_get is one atomic insert-if-absent-else-read: its INSERT never  *)
(* overwrites a rating already stored, and the value it returns is the     *)
(* rating stored for the key at that instant.                              *)
(***************************************************************************)
C5_AtomicGet ==
    [][\A p \in Callers :
          GetInsert(p) =>
              /\ (HasRow(elo, op[p].key) => elo' = elo)
              /\ ret'[p] = elo'[op[p].key]]_vars

(***************************************************************************)
(* What the claims about the today-filter speak of: the instant an event   *)
(* starts, and the local date of that instant in a zone.                   *)
(***************************************************************************)
HasStart(it) == ~NotIso(it) /\ ParseIso(ReplaceZ(it.commence_time)).ok

LocalWall(z, utc) == utc + OffsetAtInstant(z, utc)

StartsOn(it, z, d) ==
    HasStart(it) /\ LocalWall(z, ItemUtc(it)) \div DayMinutes = d

OutIds == {out[j].id : j \in 1..Len(out)}

(***************************************************************************)
(* C6: the today-filter returns the events in ascending order of their     *)
(* absolute start time, events of equal start time in input order.         *)
(***************************************************************************)
C6_SortedByStartTime ==
    fstatus = "returned" =>
        \A i \in 1..Len(out) : \A j \in 1..Len(out) :
            i < j =>
                \/ ItemUtc(out[i]) < ItemUtc(out[j])
                \/ (ItemUtc(out[i]) = ItemUtc(out[j]) /\ out[i].id < out[j].id)

(***************************************************************************)
(* C7: an event whose timestamp is missing or cannot be parsed is left out *)
(* of the result, the remaining events are returned, and no parse failure  *)
(* leaves the filter.                                                      *)
(***************************************************************************)
C7_BadTimestampExcluded ==
    fstatus # "ready" =>
        /\ fstatus = "returned"
        /\ OutIds = {items[i].id : i \in {k \in 1..Len(items) :
                                            StartsOn(items[k], now.zone, now.date)}}

(***************************************************************************)
(* C8: the today-filter keeps exactly the events that start within the     *)
(* local date of the call, from its 00:00 up to, not including, 00:00 of   *)
(* the next day.                                                           *)
(***************************************************************************)
C8_KeepsExactlyToday ==
    fstatus = "returned" =>
        /\ \A i \in 1..Len(items) :
              StartsOn(items[i], now.zone, now.date)
                  <=> (\E j \in 1..Len(out) : out[j] = items[i])
        /\ Cardinality(OutIds) = Len(out)

\* an event at 00:00 and one at 23:59 of the day are kept, one at 00:00 of
\* the next day is dropped
C8_Witness ==
    /\ fstatus = "returned"
    /\ \E j \in 1..Len(out) :
          LocalWall(now.zone, ItemUtc(out[j])) = now.date * DayMinutes
    /\ \E j \in 1..Len(out) :
          LocalWall(now.zone, ItemUtc(out[j])) = (now.date + 1) * DayMinutes - 1
    /\ \E i \in 1..Len(items) :
          /\ HasStart(items[i])
          /\ LocalWall(now.zone, ItemUtc(items[i])) = (now.date + 1) * DayMinutes
          /\ items[i].id \notin OutIds

(***************************************************************************)
(* C9: in /today (one sport or all) and in the daily post, a requested     *)
(* sport with no events left after filtering gets its "no events"          *)
(* placeholder in the output.                                              *)
(***************************************************************************)
Requested ==
    IF request.kind = "post_today" THEN SPORT_KEYS
    ELSE IF request.kind = "cmd_today" /\ request.args # <<>>
    THEN (IF Lower(request.args[1]) = "all" THEN SPORT_KEYS
          ELSE {Lower(request.args[1])} \cap SPORT_KEYS)
    ELSE {}

\* the generic "No events today" reply is counted as the placeholder of
\* every sport requested
C9_PlaceholderForEmptySport ==
    (/\ request.status = "done"
     /\ apiKey
     /\ request.kind = "post_today" => channelId)
        => \A lg \in Requested :
              LeagueToday(lg, now.zone, now.date) = <<>>
                  => \E i \in 1..Len(sent) :
                        \/ sent[i] = [kind |-> "placeholder", league |-> lg]
                        \/ sent[i] = Text("no_events")

(***************************************************************************)
(* C10: when the weather request fails, the home rating of a baseball or   *)
(* football prediction is raised by the terms that are not weather alone   *)
(* (home field, park factor, rest), and the prediction raises no error.    *)
(***************************************************************************)
NonWeatherDelta ==
    IF game.league = "mlb"
    THEN MlbHomeField * RScale
         + (IF game.home_team = "Colorado Rockies" THEN ((118 - 100) * RScale) \div 5
            ELSE IF game.home_team = "Cincinnati Reds" THEN ((104 - 100) * RScale) \div 5
            ELSE 0)
    ELSE NflHomeField * RScale + ((DefaultRest - DefaultRest) * 3 * RScale) \div 2

C10_AbsentWeatherAddsNothing ==
    (pred # NoPred /\ pred.fetched /\ ~resp.ok) =>
        /\ ~pred.error
        /\ pred.home - pred.base_home = NonWeatherDelta

\* the weather request of a game at Coors Field has failed
C10_Witness ==
    /\ pred # NoPred
    /\ pred.fetched
    /\ ~resp.ok
    /\ game.home_team = "Colorado Rockies"
    /\ pred.home - pred.base_home = 3360

(***************************************************************************)
(* C11: once a /autopost with a valid HH:MM has been handled while the bot *)
(* is running, the daily post fires in the minute POST_TIME names and in   *)
(* no other minute: it has moved away from the time the job was registered *)
(* with at startup.                                                        *)
(***************************************************************************)
ValidHHMM(s) ==
    /\ Len(s) = 5
    /\ \A i \in {1, 2, 4, 5} : IsDigit(s[i])
    /\ s[3] = Ascii.colon
    /\ Num2(s, 1) < 24
    /\ Num2(s, 4) < HourMinutes

MinuteOfDay(s) == Num2(s, 1) * HourMinutes + Num2(s, 4)

C11_AutopostMovesDailyPost ==
    [][(clock' # clock /\ started /\ commanded /\ ValidHHMM(POST_TIME))
          => (posted' <=> clock'.minute = MinuteOfDay(POST_TIME))]_vars

====
